---- MODULE Spec2Model ----
(***************************************************************************)
(* A model of snakemq_pubsub: the Broker's channel registry and its        *)
(* command handler (Broker.on_recv), the Subscriber's desired set with its *)
(* resubscription on connect, and the queues of the transport that carry   *)
(* a published message from the Publisher to the Subscribers.              *)
(*                                                                         *)
(* A text is a sequence of one-character strings; a payload is a sequence  *)
(* of bytes, an ASCII byte being written as its character.                 *)
(***************************************************************************)
EXTENDS Bags, FiniteSets, Integers, Sequences, TLC

\* ------------------------------------------------------------------------
\* Bounds of the model
\* ------------------------------------------------------------------------

\* the largest number of space-separated fields after the verb of a payload
MaxArgs == 2

\* the largest number of commands a Subscriber's messaging holds for the broker
MaxQueue == 2

\* the largest number of characters of a message whose relay is followed
MaxMsgLen == 4

\* the largest number of calls of Publisher.publish whose delivery is followed
MaxPublish == 2

\* ------------------------------------------------------------------------
\* Texts and payloads
\* ------------------------------------------------------------------------

SP == " "

\* a byte that no UTF-8 text contains (0xFF)
BadByte == "0xFF"

STR_SUBSCRIBE == <<"S", "U", "B", "S", "C", "R", "I", "B", "E">>

STR_UNSUBSCRIBE == <<"U", "N">> \o STR_SUBSCRIBE

STR_PUBLISH == <<"P", "U", "B", "L", "I", "S", "H">>

\* bytes.decode("utf-8") succeeds
Decodes(data) == \A i \in 1..Len(data) : data[i] # BadByte

\* str.startswith
StartsWith(s, p) == Len(s) >= Len(p) /\ SubSeq(s, 1, Len(p)) = p

\* the index of the first space of a text that has one
FirstSpace(s) == CHOOSE i \in 1..Len(s) : s[i] = SP /\ \A j \in 1..(i - 1) : s[j] # SP

\* Split as str.split() without a separator: runs of spaces separate, and no
\* field is empty
RECURSIVE SplitCollapsing(_)
SplitCollapsing(s) ==
    IF \A i \in 1..Len(s) : s[i] # SP
    THEN (IF s = <<>> THEN <<>> ELSE <<s>>)
    ELSE (IF FirstSpace(s) = 1 THEN <<>> ELSE <<SubSeq(s, 1, FirstSpace(s) - 1)>>)
             \o SplitCollapsing(SubSeq(s, FirstSpace(s) + 1, Len(s)))

\* str.split(" "): every single space separates, so a run of spaces yields
\* empty fields
RECURSIVE Split(_)
Split(s) ==
    IF \A i \in 1..Len(s) : s[i] # SP
    THEN <<s>>
    ELSE <<SubSeq(s, 1, FirstSpace(s) - 1)>>
             \o Split(SubSeq(s, FirstSpace(s) + 1, Len(s)))

\* " ".join(parts)
RECURSIVE Join(_)
Join(parts) ==
    IF parts = <<>> THEN <<>>
    ELSE IF Len(parts) = 1 THEN parts[1]
    ELSE parts[1] \o <<SP>> \o Join(Tail(parts))

\* ------------------------------------------------------------------------
\* The registry: a dict from channel name to a set of peer identities
\* ------------------------------------------------------------------------

EmptyDict == [k \in {} |-> {}]

\* d[k] = v
DictSet(d, k, v) == [x \in (DOMAIN d) \cup {k} |-> IF x = k THEN v ELSE d[x]]

\* SubscribeOne assigning a new set that holds the peer alone
SubscribeOneReplacing(ch, ident, channel) == DictSet(ch, channel, {ident})

\* the body of the SUBSCRIBE loop for one channel
SubscribeOne(ch, ident, channel) ==
    LET ch1 == IF channel \notin DOMAIN ch THEN DictSet(ch, channel, {}) ELSE ch
    IN  DictSet(ch1, channel, ch1[channel] \cup {ident})

\* SubscribeLoop taking the fields for the whole list of the peer: the peer
\* leaves every channel the command does not list
SubscribeLoopExclusive(ch, ident, args) ==
    [c \in (DOMAIN ch) \cup {args[i] : i \in 1..Len(args)} |->
        IF c \in {args[i] : i \in 1..Len(args)}
        THEN (IF c \in DOMAIN ch THEN ch[c] ELSE {}) \cup {ident}
        ELSE ch[c] \ {ident}]

\* the SUBSCRIBE loop over the fields after the verb
RECURSIVE SubscribeLoop(_, _, _)
SubscribeLoop(ch, ident, args) ==
    IF args = <<>> THEN ch
    ELSE SubscribeLoop(SubscribeOne(ch, ident, Head(args)), ident, Tail(args))

\* set.remove raises KeyError when the element is absent
RemoveRaises(set, ident) == ident \notin set

\* UnsubscribeLoop deleting the entry of a channel whose set it empties
RECURSIVE UnsubscribeLoopPruning(_, _, _)
UnsubscribeLoopPruning(ch, ident, args) ==
    IF args = <<>> THEN [channels |-> ch, sent |-> EmptyBag, raised |-> "none"]
    ELSE LET channel == Head(args)
         IN  IF channel \in DOMAIN ch
             THEN IF RemoveRaises(ch[channel], ident)
                  THEN [channels |-> ch, sent |-> EmptyBag, raised |-> "KeyError"]
                  ELSE UnsubscribeLoopPruning(
                           IF ch[channel] = {ident}
                           THEN [c \in (DOMAIN ch) \ {channel} |-> ch[c]]
                           ELSE DictSet(ch, channel, ch[channel] \ {ident}),
                           ident, Tail(args))
             ELSE UnsubscribeLoopPruning(ch, ident, Tail(args))

\* the UNSUBSCRIBE loop over the fields after the verb, as the result of
\* on_recv; it stops at the first channel whose set.remove raises
RECURSIVE UnsubscribeLoop(_, _, _)
UnsubscribeLoop(ch, ident, args) ==
    IF args = <<>> THEN [channels |-> ch, sent |-> EmptyBag, raised |-> "none"]
    ELSE LET channel == Head(args)
         IN  IF channel \in DOMAIN ch
             THEN IF RemoveRaises(ch[channel], ident)
                  THEN [channels |-> ch, sent |-> EmptyBag, raised |-> "KeyError"]
                  ELSE UnsubscribeLoop(DictSet(ch, channel, ch[channel] \ {ident}),
                                       ident, Tail(args))
             ELSE UnsubscribeLoop(ch, ident, Tail(args))

\* the text takes the PUBLISH branch of on_recv
IsPublish(data) == StartsWith(data, STR_PUBLISH \o <<SP>>)

\* one outbound message handed to messaging.send_message
Send(connection, text) == [to |-> connection, data |-> text]

\* FanOut with every peer sent to twice
RECURSIVE FanOutTwice(_, _)
FanOutTwice(peers, text) ==
    IF peers = {} THEN EmptyBag
    ELSE LET connection == CHOOSE p \in peers : TRUE
         IN  SetToBag({Send(connection, text)}) (+) SetToBag({Send(connection, text)})
                 (+) FanOutTwice(peers \ {connection}, text)

\* the fan-out loop of PUBLISH over a set of peers, as the bag of its sends
RECURSIVE FanOut(_, _)
FanOut(peers, text) ==
    IF peers = {} THEN EmptyBag
    ELSE LET connection == CHOOSE p \in peers : TRUE
         IN  SetToBag({Send(connection, text)}) (+) FanOut(peers \ {connection}, text)

\* the PUBLISH branch
PublishSends(ch, msg_split) ==
    IF Len(msg_split) >= 3
    THEN IF msg_split[2] \in DOMAIN ch
         THEN FanOut(ch[msg_split[2]], Join(SubSeq(msg_split, 3, Len(msg_split))))
         ELSE EmptyBag
    ELSE EmptyBag

\* Broker.on_recv(conn, ident, message) run on registry ch: the registry it
\* leaves, the bag of messages it sends and the exception it raises
OnRecvResult(ch, ident, data) ==
    IF ~Decodes(data)
    THEN [channels |-> ch, sent |-> EmptyBag, raised |-> "UnicodeDecodeError"]
    ELSE IF StartsWith(data, STR_SUBSCRIBE \o <<SP>>)
    THEN [channels |-> SubscribeLoop(ch, ident, Tail(Split(data))),
          sent |-> EmptyBag, raised |-> "none"]
    ELSE IF StartsWith(data, STR_UNSUBSCRIBE \o <<SP>>)
    THEN UnsubscribeLoop(ch, ident, Tail(Split(data)))
    ELSE IF StartsWith(data, STR_PUBLISH \o <<SP>>)
    THEN [channels |-> ch, sent |-> PublishSends(ch, Split(data)), raised |-> "none"]
    ELSE [channels |-> ch, sent |-> EmptyBag, raised |-> "none"]

\* ------------------------------------------------------------------------
\* Inputs
\* ------------------------------------------------------------------------

\* the peers that hand payloads of their own making to the transport
Idents == {"subscriber1", "subscriber2"}

\* the Subscriber objects, by my_identity
Subscribers == {"subscriber1"}

\* my_identity of the Publisher object
PublisherIdent == "publisher"

\* the Broker instances of one process: the first, and the one constructed to
\* replace it
Brokers == {1, 2}

\* the fields a payload is built of: the empty field and two channel names
Tokens == {<<>>, <<"a">>, <<"b">>}

\* the channel names the callers of subscribe, unsubscribe and publish pass
ApiChannels == {<<"a">>, <<"b">>}

\* the messages the callers of publish pass
ApiMessages == {<<"a">>}

\* the characters of the messages whose relay is followed: a letter and the
\* space
RelayChars == {"a", SP}

\* the texts of n characters
RECURSIVE TextsOf(_)
TextsOf(n) ==
    IF n = 0 THEN {<<>>}
    ELSE {t \o <<ch>> : t \in TextsOf(n - 1), ch \in RelayChars}

\* the messages passed to publish whose relay is followed: every text of up
\* to MaxMsgLen characters, runs of spaces at either end or inside included
RelayMessages == UNION {TextsOf(n) : n \in 0..MaxMsgLen}

\* the texts made of exactly n fields, each preceded by one space
RECURSIVE Bodies(_)
Bodies(n) ==
    IF n = 0 THEN {<<>>}
    ELSE {body \o <<SP>> \o t : body \in Bodies(n - 1), t \in Tokens}

Verbs == {STR_SUBSCRIBE, STR_UNSUBSCRIBE, STR_PUBLISH}

\* a first word that is no verb
STR_PUB == <<"P", "U", "B">>

\* the payloads a peer sends to the broker: a verb and up to MaxArgs fields,
\* texts without a verb, and byte strings that are not UTF-8
Payloads ==
    {w \o body : w \in Verbs, body \in UNION {Bodies(n) : n \in 0..MaxArgs}}
        \cup {w \o body : w \in {<<>>, STR_PUB}, body \in Bodies(0) \cup Bodies(1)}
        \cup {w \o <<SP, BadByte>> : w \in Verbs \cup {<<>>}}

\* the command Subscriber.subscribe formats
SubscribeCommand(channel) == STR_SUBSCRIBE \o <<SP>> \o channel

\* UnsubscribeCommand with the verb of subscribe
UnsubscribeCommandAsSubscribe(channel) == SubscribeCommand(channel)

\* the command Subscriber.unsubscribe formats
UnsubscribeCommand(channel) == STR_UNSUBSCRIBE \o <<SP>> \o channel

\* the command Publisher.publish formats
PublishCommand(channel, message) ==
    STR_PUBLISH \o <<SP>> \o channel \o <<SP>> \o message

\* ------------------------------------------------------------------------
\* State
\* ------------------------------------------------------------------------

VARIABLES
    channels,       \* Broker.channels, the dict of the class
    before,         \* channels as the last on_recv call found it
    brokerState,    \* per Broker instance: "none", "up" (run) or "stopped"
    recv,           \* the last on_recv call of the running instance: self,
                    \* ident and message.data
    sent,           \* the messages that call handed to send_message
    raised,         \* the exception that call raised, or "none"
    iter,           \* the set iterator of a fan-out loop in progress
    connected,      \* per Subscriber: its link to the broker is up
    subscriptions,  \* per Subscriber: Subscriber.subscriptions
    outq,           \* per Subscriber: the commands its messaging holds for
                    \* the broker, oldest first
    subRaised,      \* per Subscriber: the exception its last call raised
    dropped,        \* per Subscriber: the transport dropped a command of it
    call,           \* per Subscriber: its last call, the method and the
                    \* channel passed to it
    pubConnected,   \* the link of the Publisher to the broker is up
    pubq,           \* the commands the Publisher's messaging holds for the
                    \* broker, oldest first, each with the mark of a publish
                    \* made during an outage
    outbox,         \* per Subscriber: the messages the messaging of the
                    \* running Broker holds for it, oldest first
    received,       \* per Subscriber: the messages handed to its on_recv
    lost,           \* a message was dropped: its ttl ran out, or the Broker
                    \* that held it stopped
    published,      \* the number of calls of Publisher.publish
    owed,           \* per Subscriber: the number of publishes made during an
                    \* outage on a channel of its desired set
    due             \* per Subscriber: the number of publishes made during an
                    \* outage on a channel whose registry set held it

brokerVars == <<channels, before, brokerState, recv, sent, raised, iter>>

subVars == <<connected, subscriptions, outq, subRaised, dropped, call>>

pubVars == <<pubConnected, pubq, outbox, received, lost, published, owed, due>>

vars == <<channels, before, brokerState, recv, sent, raised, iter,
          connected, subscriptions, outq, subRaised, dropped, call,
          pubConnected, pubq, outbox, received, lost, published, owed, due>>

\* no on_recv call yet
NoRecv == [broker |-> 0, ident |-> "none", data |-> <<>>]

\* no fan-out loop in progress
NoIter == [broker |-> 0, channel |-> <<>>, text |-> <<>>, used |-> 0, start |-> {},
           visited |-> {}]

\* self.channels of an instance: no instance attribute is ever assigned, so
\* the lookup finds the attribute of the class
BrokerChannels(b) == channels

\* no call of a method of the Subscriber yet
NoCall == [op |-> "none", channel |-> <<>>]

Init ==
    /\ channels = EmptyDict
    /\ before = EmptyDict
    /\ brokerState = [b \in Brokers |-> "none"]
    /\ recv = NoRecv
    /\ sent = EmptyBag
    /\ raised = "none"
    /\ iter = NoIter
    /\ connected = [s \in Subscribers |-> FALSE]
    /\ subscriptions = [s \in Subscribers |-> {}]
    /\ outq = [s \in Subscribers |-> <<>>]
    /\ subRaised = [s \in Subscribers |-> "none"]
    /\ dropped = [s \in Subscribers |-> FALSE]
    /\ call = [s \in Subscribers |-> NoCall]
    /\ pubConnected = FALSE
    /\ pubq = <<>>
    /\ outbox = [s \in Subscribers |-> <<>>]
    /\ received = [s \in Subscribers |-> <<>>]
    /\ lost = FALSE
    /\ published = 0
    /\ owed = [s \in Subscribers |-> 0]
    /\ due = [s \in Subscribers |-> 0]

\* ------------------------------------------------------------------------
\* The Broker
\* ------------------------------------------------------------------------

\* NewBroker with a registry of the instance, empty at construction
NewBrokerEmptyRegistry(b) ==
    /\ brokerState[b] = "none"
    /\ \A o \in Brokers : o < b => brokerState[o] # "none"
    /\ \A o \in Brokers : brokerState[o] # "up"
    /\ brokerState' = [brokerState EXCEPT ![b] = "up"]
    /\ recv' = NoRecv
    /\ channels' = EmptyDict
    /\ before' = EmptyDict
    /\ sent' = EmptyBag
    /\ raised' = "none"
    /\ UNCHANGED <<iter, subVars, pubVars>>

\* Broker(host, port, identity) followed by run(): the instance has its own
\* link and messaging and listens on the address, which no other running
\* instance holds; the constructor does not touch channels
NewBroker(b) ==
    /\ brokerState[b] = "none"
    /\ \A o \in Brokers : o < b => brokerState[o] # "none"
    /\ \A o \in Brokers : brokerState[o] # "up"
    /\ brokerState' = [brokerState EXCEPT ![b] = "up"]
    /\ recv' = NoRecv
    /\ before' = channels
    /\ sent' = EmptyBag
    /\ raised' = "none"
    /\ UNCHANGED <<channels, iter, subVars, pubVars>>

\* Broker.stop(): the loop ends and the links of the peers close; the
\* messages its messaging held for peers are gone with the instance
StopBroker(b) ==
    /\ brokerState[b] = "up"
    /\ iter.broker # b
    /\ brokerState' = [brokerState EXCEPT ![b] = "stopped"]
    /\ connected' = [s \in Subscribers |-> FALSE]
    /\ pubConnected' = FALSE
    /\ outbox' = [s \in Subscribers |-> <<>>]
    /\ lost' = (lost \/ \E s \in Subscribers : outbox[s] # <<>>)
    /\ UNCHANGED <<channels, before, recv, sent, raised, iter>>
    /\ UNCHANGED <<subscriptions, outq, subRaised, dropped, call>>
    /\ UNCHANGED <<pubq, received, published, owed, due>>

\* the loop of instance b calls on_recv(conn, p, message) with
\* message.data = data
OnRecv(b, p, data) ==
    /\ brokerState[b] = "up"
    /\ recv' = [broker |-> b, ident |-> p, data |-> data]
    /\ before' = BrokerChannels(b)
    /\ \E r \in {OnRecvResult(BrokerChannels(b), p, data)} :
           /\ channels' = r.channels
           /\ sent' = r.sent
           /\ raised' = r.raised
    /\ UNCHANGED <<brokerState, iter>>

\* a payload of a peer reaches the broker
PeerSend(b, p, data) ==
    /\ OnRecv(b, p, data)
    /\ UNCHANGED <<subVars, pubVars>>

Next ==
    \/ \E b \in Brokers : NewBroker(b)
    \/ \E b \in Brokers : StopBroker(b)
    \/ \E b \in Brokers, p \in Idents, data \in Payloads : PeerSend(b, p, data)

Spec == Init /\ [][Next]_vars

\* ------------------------------------------------------------------------
\* The Subscriber, its link and its messaging
\* ------------------------------------------------------------------------

\* messaging.send_message(self.broker_identity, command_msg): the command
\* joins the queue held for the broker
SendMessage(q, command) == Append(q, command)

\* DesiredAdd keeping the command instead of the channel
DesiredAddCommand(set, channel) == set \cup {SubscribeCommand(channel)}

\* self.subscriptions.add(channel)
DesiredAdd(set, channel) == set \cup {channel}

\* the orders in which a for loop may visit a set
Orderings(set) ==
    {order \in [1..Cardinality(set) -> set] :
        \A i, j \in 1..Cardinality(set) : i # j => order[i] # order[j]}

\* Subscribe sending the whole desired set after the add
SubscribeResendAll(s, channel) ==
    /\ Len(outq[s]) + Cardinality(DesiredAdd(subscriptions[s], channel)) <= MaxQueue
    /\ \E order \in Orderings(DesiredAdd(subscriptions[s], channel)) :
           outq' = [outq EXCEPT ![s] =
                       @ \o [i \in 1..Len(order) |-> SubscribeCommand(order[i])]]
    /\ subscriptions' = [subscriptions EXCEPT ![s] = DesiredAdd(@, channel)]
    /\ subRaised' = [subRaised EXCEPT ![s] = "none"]
    /\ call' = [call EXCEPT ![s] = [op |-> "subscribe", channel |-> channel]]
    /\ UNCHANGED <<brokerVars, pubVars, connected, dropped>>

\* Subscriber.subscribe(channel): the command is sent whatever the state of
\* the link, then the channel is added
Subscribe(s, channel) ==
    /\ Len(outq[s]) < MaxQueue
    /\ outq' = [outq EXCEPT ![s] = SendMessage(@, SubscribeCommand(channel))]
    /\ subscriptions' = [subscriptions EXCEPT ![s] = DesiredAdd(@, channel)]
    /\ subRaised' = [subRaised EXCEPT ![s] = "none"]
    /\ call' = [call EXCEPT ![s] = [op |-> "subscribe", channel |-> channel]]
    /\ UNCHANGED <<brokerVars, pubVars, connected, dropped>>

\* Unsubscribe looking the channel up before it sends
UnsubscribeChecked(s, channel) ==
    /\ Len(outq[s]) < MaxQueue
    /\ IF channel \in subscriptions[s]
       THEN /\ outq' = [outq EXCEPT ![s] = Append(@, UnsubscribeCommand(channel))]
            /\ subscriptions' = [subscriptions EXCEPT ![s] = @ \ {channel}]
            /\ subRaised' = [subRaised EXCEPT ![s] = "none"]
       ELSE /\ outq' = outq
            /\ subscriptions' = subscriptions
            /\ subRaised' = [subRaised EXCEPT ![s] = "KeyError"]
    /\ call' = [call EXCEPT ![s] = [op |-> "unsubscribe", channel |-> channel]]
    /\ UNCHANGED <<brokerVars, pubVars, connected, dropped>>

\* Subscriber.unsubscribe(channel): the command is sent first, then
\* set.remove raises KeyError if the channel is not in the set
Unsubscribe(s, channel) ==
    /\ Len(outq[s]) < MaxQueue
    /\ outq' = [outq EXCEPT ![s] = SendMessage(@, UnsubscribeCommand(channel))]
    /\ IF channel \in subscriptions[s]
       THEN /\ subscriptions' = [subscriptions EXCEPT ![s] = @ \ {channel}]
            /\ subRaised' = [subRaised EXCEPT ![s] = "none"]
       ELSE /\ subscriptions' = subscriptions
            /\ subRaised' = [subRaised EXCEPT ![s] = "KeyError"]
    /\ call' = [call EXCEPT ![s] = [op |-> "unsubscribe", channel |-> channel]]
    /\ UNCHANGED <<brokerVars, pubVars, connected, dropped>>

\* the for loop of on_connect over self.subscriptions, visiting the
\* channels of order: the iterator remembers the size of the set (used) and
\* every step, the one that finds it exhausted too, raises RuntimeError when
\* the size has changed; the body is subscribe(channel), which sends the
\* command and adds the channel to the set the loop walks
RECURSIVE OnConnectLoop(_, _, _, _)
OnConnectLoop(set, used, order, cmds) ==
    IF Cardinality(set) # used
    THEN [subscriptions |-> set, cmds |-> cmds, raised |-> "RuntimeError"]
    ELSE IF order = <<>>
    THEN [subscriptions |-> set, cmds |-> cmds, raised |-> "none"]
    ELSE OnConnectLoop(DesiredAdd(set, Head(order)), used, Tail(order),
                       SendMessage(cmds, SubscribeCommand(Head(order))))

\* the link reaches the listening broker and calls Subscriber.on_connect
LinkConnect(s) ==
    /\ ~connected[s]
    /\ \E b \in Brokers : brokerState[b] = "up"
    /\ Len(outq[s]) + Cardinality(subscriptions[s]) <= MaxQueue
    /\ connected' = [connected EXCEPT ![s] = TRUE]
    /\ \E order \in Orderings(subscriptions[s]) :
       \E r \in {OnConnectLoop(subscriptions[s], Cardinality(subscriptions[s]),
                               order, <<>>)} :
           /\ outq' = [outq EXCEPT ![s] = @ \o r.cmds]
           /\ subscriptions' = [subscriptions EXCEPT ![s] = r.subscriptions]
           /\ subRaised' = [subRaised EXCEPT ![s] = r.raised]
    /\ call' = [call EXCEPT ![s] = [op |-> "on_connect", channel |-> <<>>]]
    /\ UNCHANGED <<brokerVars, pubVars, dropped>>

\* the link drops; neither the Subscriber nor the Broker has a handler for it
LinkDisconnect(s) ==
    /\ connected[s]
    /\ connected' = [connected EXCEPT ![s] = FALSE]
    /\ UNCHANGED <<brokerVars, pubVars, subscriptions, outq, subRaised, dropped, call>>

\* the oldest queued command reaches the broker over the link
Deliver(b, s) ==
    /\ connected[s]
    /\ outq[s] # <<>>
    /\ OnRecv(b, s, Head(outq[s]))
    /\ outq' = [outq EXCEPT ![s] = Tail(@)]
    /\ UNCHANGED <<connected, subscriptions, subRaised, dropped, call, pubVars>>

\* the time to live (ttl=60) of the oldest queued command runs out while
\* the broker is out of reach: the transport drops the command
Expire(s) ==
    /\ ~connected[s]
    /\ outq[s] # <<>>
    /\ outq' = [outq EXCEPT ![s] = Tail(@)]
    /\ dropped' = [dropped EXCEPT ![s] = TRUE]
    /\ UNCHANGED <<brokerVars, pubVars, connected, subscriptions, subRaised, call>>

\* a command of Publisher.publish(channel, message) reaches the broker
PublishRecv(b, channel, message) ==
    /\ OnRecv(b, PublisherIdent, PublishCommand(channel, message))
    /\ UNCHANGED <<subVars, pubVars>>

NextSys ==
    \/ \E b \in Brokers : NewBroker(b)
    \/ \E b \in Brokers : StopBroker(b)
    \/ \E s \in Subscribers, c \in ApiChannels : Subscribe(s, c)
    \/ \E s \in Subscribers, c \in ApiChannels : Unsubscribe(s, c)
    \/ \E s \in Subscribers : LinkConnect(s)
    \/ \E s \in Subscribers : LinkDisconnect(s)
    \/ \E b \in Brokers, s \in Subscribers : Deliver(b, s)
    \/ \E s \in Subscribers : Expire(s)
    \/ \E b \in Brokers, c \in ApiChannels, m \in ApiMessages : PublishRecv(b, c, m)

SpecSys == Init /\ [][NextSys]_vars

\* ------------------------------------------------------------------------
\* The relay of a published message: publish, on_recv, send_message
\* ------------------------------------------------------------------------

NextRelay ==
    \/ \E b \in Brokers : NewBroker(b)
    \/ \E b \in Brokers, p \in Idents, c \in ApiChannels :
           PeerSend(b, p, SubscribeCommand(c))
    \/ \E b \in Brokers, c \in ApiChannels, m \in RelayMessages : PublishRecv(b, c, m)

SpecRelay == Init /\ [][NextRelay]_vars

\* ------------------------------------------------------------------------
\* Delivery: the Publisher's queue, the Broker's queues for the Subscribers,
\* the time to live of a message, and a Broker that stops and is replaced
\* ------------------------------------------------------------------------

\* an instance has stopped, and either none runs or the one that replaced it
\* has not yet handled a payload
Outage ==
    /\ \E b \in Brokers : brokerState[b] = "stopped"
    /\ \/ \A b \in Brokers : brokerState[b] # "up"
       \/ recv = NoRecv

\* Publisher.publish(channel, message): the command is handed to the
\* messaging whatever the state of the link
Publish(channel, message) ==
    /\ published < MaxPublish
    /\ published' = published + 1
    /\ pubq' = SendMessage(pubq, [data |-> PublishCommand(channel, message),
                                 outage |-> Outage])
    /\ owed' = [s \in Subscribers |->
                   IF Outage /\ channel \in subscriptions[s]
                   THEN owed[s] + 1 ELSE owed[s]]
    /\ due' = [s \in Subscribers |->
                  IF Outage /\ channel \in DOMAIN channels /\ s \in channels[channel]
                  THEN due[s] + 1 ELSE due[s]]
    /\ UNCHANGED <<brokerVars, subVars, pubConnected, outbox, received, lost>>

\* the link of the Publisher reaches the listening broker
PubConnect ==
    /\ ~pubConnected
    /\ \E b \in Brokers : brokerState[b] = "up"
    /\ pubConnected' = TRUE
    /\ UNCHANGED <<brokerVars, subVars, pubq, outbox, received, lost, published,
                   owed, due>>

\* the time to live (ttl=60) of the oldest command of the Publisher runs
\* out while the broker is out of reach
PubExpire ==
    /\ ~pubConnected
    /\ pubq # <<>>
    /\ pubq' = Tail(pubq)
    /\ lost' = TRUE
    /\ UNCHANGED <<brokerVars, subVars, pubConnected, outbox, received, published,
                   owed, due>>

\* n times x
RECURSIVE Repeat(_, _)
Repeat(x, n) == IF n = 0 THEN <<>> ELSE <<x>> \o Repeat(x, n - 1)

\* the messages of a bag of sends that are addressed to peer s
RECURSIVE ToPeer(_, _, _)
ToPeer(bag, msgs, s) ==
    IF msgs = {} THEN <<>>
    ELSE LET m == CHOOSE x \in msgs : TRUE
         IN  (IF m.to = s THEN Repeat(m.data, CopiesIn(m, bag)) ELSE <<>>)
                 \o ToPeer(bag, msgs \ {m}, s)

\* HoldFor keeping a message only for a peer whose link is up
HoldIfConnected(q, texts, outage, up) ==
    IF up
    THEN q \o [i \in 1..Len(texts) |->
                  [data |-> texts[i], outage |-> outage, held |-> FALSE]]
    ELSE q

\* messaging.send_message(connection, pub_msg) of the Broker: the messaging
\* keeps the message (ttl=60) for the peer whether its link is up or not
HoldFor(q, texts, outage, up) ==
    q \o [i \in 1..Len(texts) |->
             [data |-> texts[i], outage |-> outage, held |-> ~up]]

\* the oldest command of the Publisher reaches the broker over the link; the
\* messages on_recv sends join the queues of the Broker's messaging
PubDeliver(b) ==
    /\ pubConnected
    /\ pubq # <<>>
    /\ OnRecv(b, PublisherIdent, Head(pubq).data)
    /\ pubq' = Tail(pubq)
    /\ outbox' = [s \in Subscribers |->
                     HoldFor(outbox[s], ToPeer(sent', BagToSet(sent'), s),
                             Head(pubq).outage, connected[s])]
    /\ UNCHANGED <<subVars, pubConnected, received, lost, published, owed, due>>

\* the oldest message the Broker holds for a Subscriber reaches it over the
\* link, and its messaging calls the on_recv the Subscriber was made with
SubRecv(s) ==
    /\ connected[s]
    /\ outbox[s] # <<>>
    /\ received' = [received EXCEPT ![s] = Append(@, Head(outbox[s]))]
    /\ outbox' = [outbox EXCEPT ![s] = Tail(@)]
    /\ UNCHANGED <<brokerVars, subVars, pubConnected, pubq, lost, published, owed, due>>

\* the time to live (ttl=60) of the oldest message the Broker holds for a
\* Subscriber runs out while the Subscriber is out of reach
OutExpire(s) ==
    /\ ~connected[s]
    /\ outbox[s] # <<>>
    /\ outbox' = [outbox EXCEPT ![s] = Tail(@)]
    /\ lost' = TRUE
    /\ UNCHANGED <<brokerVars, subVars, pubConnected, pubq, received, published,
                   owed, due>>

\* a caller subscribes to a channel it has not subscribed to
SubscribeOnce(s, channel) ==
    /\ channel \notin subscriptions[s]
    /\ Subscribe(s, channel)

\* the callers subscribe to a channel once and never unsubscribe
NextDeliver ==
    \/ \E b \in Brokers : NewBroker(b)
    \/ \E b \in Brokers : StopBroker(b)
    \/ \E s \in Subscribers, c \in ApiChannels : SubscribeOnce(s, c)
    \/ \E s \in Subscribers : LinkConnect(s)
    \/ \E s \in Subscribers : LinkDisconnect(s)
    \/ \E b \in Brokers, s \in Subscribers : Deliver(b, s)
    \/ \E s \in Subscribers : Expire(s)
    \/ \E c \in ApiChannels, m \in ApiMessages : Publish(c, m)
    \/ PubConnect
    \/ PubExpire
    \/ \E b \in Brokers : PubDeliver(b)
    \/ \E s \in Subscribers : SubRecv(s)
    \/ \E s \in Subscribers : OutExpire(s)

SpecDeliver == Init /\ [][NextDeliver]_vars

\* delivery while the Broker keeps running: the links of the Subscribers
\* drop and come back
NextRedeliver ==
    \/ \E b \in Brokers : NewBroker(b)
    \/ \E s \in Subscribers, c \in ApiChannels : SubscribeOnce(s, c)
    \/ \E s \in Subscribers : LinkConnect(s)
    \/ \E s \in Subscribers : LinkDisconnect(s)
    \/ \E b \in Brokers, s \in Subscribers : Deliver(b, s)
    \/ \E s \in Subscribers : Expire(s)
    \/ \E c \in ApiChannels, m \in ApiMessages : Publish(c, m)
    \/ PubConnect
    \/ PubExpire
    \/ \E b \in Brokers : PubDeliver(b)
    \/ \E s \in Subscribers : SubRecv(s)
    \/ \E s \in Subscribers : OutExpire(s)

\* the connector of a Subscriber keeps trying to reach the address, the
\* transport sends what it holds for a peer once the link to it is up, and a
\* command that waits at a Subscriber without a link is dropped when its
\* time to live is over
SpecRedeliver ==
    /\ Init /\ [][NextRedeliver]_vars
    /\ \A s \in Subscribers : SF_vars(LinkConnect(s))
    /\ \A s \in Subscribers : SF_vars(SubRecv(s))
    /\ \A s \in Subscribers : WF_vars(Expire(s))

\* ------------------------------------------------------------------------
\* The fan-out loop, step by step, with a second instance running
\* ------------------------------------------------------------------------

\* the commands of the peers while two instances run
ConcPayloads ==
    {SubscribeCommand(c) : c \in ApiChannels}
        \cup {UnsubscribeCommand(c) : c \in ApiChannels}
        \cup {PublishCommand(c, m) : c \in ApiChannels, m \in ApiMessages}

\* on_recv reaches the for loop over self.channels[channel]
ReachesFanOut(ch, data) ==
    /\ Decodes(data)
    /\ StartsWith(data, STR_PUBLISH \o <<SP>>)
    /\ Len(Split(data)) >= 3
    /\ Split(data)[2] \in DOMAIN ch

\* Broker(host, port, identity) followed by run(), on a port of its own:
\* two instances run at once, each on the thread of its loop
NewBrokerOnPort(b) ==
    /\ brokerState[b] = "none"
    /\ iter = NoIter
    /\ brokerState' = [brokerState EXCEPT ![b] = "up"]
    /\ recv' = NoRecv
    /\ before' = channels
    /\ sent' = EmptyBag
    /\ raised' = "none"
    /\ UNCHANGED <<channels, iter, subVars, pubVars>>

\* an on_recv call that does not reach the fan-out loop
PeerSendNoFanOut(b, p, data) ==
    /\ iter = NoIter
    /\ ~ReachesFanOut(BrokerChannels(b), data)
    /\ OnRecv(b, p, data)
    /\ UNCHANGED <<subVars, pubVars>>

\* on_recv of instance b reaches the for loop: the iterator is made over the
\* set object of the registry itself and remembers the size of the set
FanOutBegin(b, p, data) ==
    /\ brokerState[b] = "up"
    /\ iter = NoIter
    /\ ReachesFanOut(BrokerChannels(b), data)
    /\ recv' = [broker |-> b, ident |-> p, data |-> data]
    /\ before' = BrokerChannels(b)
    /\ sent' = EmptyBag
    /\ raised' = "none"
    /\ iter' = [broker |-> b,
                channel |-> Split(data)[2],
                text |-> Join(SubSeq(Split(data), 3, Len(Split(data)))),
                used |-> Cardinality(BrokerChannels(b)[Split(data)[2]]),
                start |-> BrokerChannels(b)[Split(data)[2]],
                visited |-> {}]
    /\ UNCHANGED <<channels, brokerState, subVars, pubVars>>

\* the next step of the for loop finds the size of the set changed: the
\* iterator raises RuntimeError, which leaves on_recv
FanOutRaise(b) ==
    /\ iter.broker = b
    /\ Cardinality(channels[iter.channel]) # iter.used
    /\ raised' = "RuntimeError"
    /\ iter' = NoIter
    /\ UNCHANGED <<channels, before, brokerState, recv, sent, subVars, pubVars>>

\* the next step of the for loop yields a peer not yet visited, and the body
\* sends to it
FanOutSend(b) ==
    /\ iter.broker = b
    /\ Cardinality(channels[iter.channel]) = iter.used
    /\ \E connection \in channels[iter.channel] \ iter.visited :
           /\ sent' = sent (+) SetToBag({Send(connection, iter.text)})
           /\ iter' = [iter EXCEPT !.visited = @ \cup {connection}]
    /\ UNCHANGED <<channels, before, brokerState, recv, raised, subVars, pubVars>>

\* the iterator is exhausted: every peer was visited, or the set was changed
\* to other peers of the same number and the walk over its table met no more
FanOutEnd(b) ==
    /\ iter.broker = b
    /\ Cardinality(channels[iter.channel]) = iter.used
    /\ \/ channels[iter.channel] \ iter.visited = {}
       \/ channels[iter.channel] # iter.start
    /\ iter' = NoIter
    /\ UNCHANGED <<channels, before, brokerState, recv, sent, raised, subVars, pubVars>>

\* while instance iter.broker is in its fan-out loop, the loop thread of
\* another instance runs on_recv for a SUBSCRIBE or UNSUBSCRIBE, on the same
\* dict; of that call only the registry is followed here
ConcurrentRecv(o, p, data) ==
    /\ iter # NoIter
    /\ o # iter.broker
    /\ brokerState[o] = "up"
    /\ ~IsPublish(data)
    /\ channels' = OnRecvResult(BrokerChannels(o), p, data).channels
    /\ UNCHANGED <<before, brokerState, recv, sent, raised, iter, subVars, pubVars>>

NextConc ==
    \/ \E b \in Brokers : NewBrokerOnPort(b)
    \/ \E b \in Brokers : StopBroker(b)
    \/ \E b \in Brokers, p \in Idents, data \in ConcPayloads : PeerSendNoFanOut(b, p, data)
    \/ \E b \in Brokers, p \in Idents, data \in ConcPayloads : FanOutBegin(b, p, data)
    \/ \E b \in Brokers : FanOutRaise(b)
    \/ \E b \in Brokers : FanOutSend(b)
    \/ \E b \in Brokers : FanOutEnd(b)
    \/ \E o \in Brokers, p \in Idents, data \in ConcPayloads : ConcurrentRecv(o, p, data)

SpecConc == Init /\ [][NextConc]_vars

\* ------------------------------------------------------------------------
\* Vocabulary of the properties
\* ------------------------------------------------------------------------

\* the peers of a channel, a channel without an entry having none
Registered(ch, channel) == IF channel \in DOMAIN ch THEN ch[channel] ELSE {}

\* the channels a peer is registered under
ChannelsOf(ch, ident) == {c \in DOMAIN ch : ident \in ch[c]}

\* the payload starts with the verb and a space
IsVerb(data, verb) == StartsWith(data, verb \o <<SP>>)

\* the fields after the verb
Args(data) == Tail(Split(data))

\* the set of the fields after the verb
Listed(data) == {Args(data)[i] : i \in 1..Len(Args(data))}

\* a decodable command of the verb
IsCommand(data, verb) == Decodes(data) /\ IsVerb(data, verb)

\* PUBLISH channel message...
WellFormedPublish(data) == IsCommand(data, STR_PUBLISH) /\ Len(Args(data)) >= 2

\* no recognized verb at the start, or a PUBLISH with fewer than 2 arguments
Malformed(data) ==
    \/ \A verb \in Verbs : ~IsVerb(data, verb)
    \/ IsVerb(data, STR_PUBLISH) /\ Len(Args(data)) < 2

\* the number of messages of a bag addressed to a peer
RECURSIVE CountTo(_, _, _)
CountTo(bag, msgs, q) ==
    IF msgs = {} THEN 0
    ELSE LET m == CHOOSE x \in msgs : TRUE
         IN  (IF m.to = q THEN CopiesIn(m, bag) ELSE 0) + CountTo(bag, msgs \ {m}, q)

SendsTo(bag, q) == CountTo(bag, BagToSet(bag), q)

\* the text with every run of spaces collapsed to one space
RECURSIVE Collapse(_)
Collapse(text) ==
    IF Len(text) < 2 THEN text
    ELSE IF text[1] = SP /\ text[2] = SP THEN Collapse(Tail(text))
    ELSE <<text[1]>> \o Collapse(Tail(text))

\* the number of messages of a queue that were published during an outage
RECURSIVE NumOutage(_)
NumOutage(q) ==
    IF q = <<>> THEN 0
    ELSE (IF Head(q).outage THEN 1 ELSE 0) + NumOutage(Tail(q))

\* nothing is on its way to Subscriber s and the transport dropped nothing:
\* the peers reconnected before a time to live ran out
AtRest(s) ==
    /\ pubq = <<>>
    /\ outbox[s] = <<>>
    /\ outq[s] = <<>>
    /\ ~lost
    /\ ~dropped[s]

\* every identity of the model
AllPeers == Idents \cup Subscribers \cup {PublisherIdent}

\* the step is a call of method op of Subscriber s
Calls(s, op) ==
    /\ call'[s].op = op
    /\ \/ call'[s] # call[s]
       \/ Len(outq'[s]) > Len(outq[s])
       \/ ~connected[s] /\ connected'[s]

\* the commands the step handed to the messaging of Subscriber s
Handed(s) == SubSeq(outq'[s], Len(outq[s]) + 1, Len(outq'[s]))

\* the number of commands of a sequence that list a channel
RECURSIVE Listing(_, _)
Listing(cmds, c) ==
    IF cmds = <<>> THEN 0
    ELSE (IF c \in Listed(Head(cmds)) THEN 1 ELSE 0) + Listing(Tail(cmds), c)

\* ------------------------------------------------------------------------
\* Properties of the Broker's handler (specification Spec)
\* ------------------------------------------------------------------------

\* C1: when on_recv handles a well-formed PUBLISH on channel c, it sends
\* exactly one message to each peer in the registry set of c, and none to
\* any other peer.
C1_FanOutExactlyOnce ==
    WellFormedPublish(recv.data) =>
        /\ \A m \in BagToSet(sent) : m.to \in AllPeers
        /\ \A q \in AllPeers :
               SendsTo(sent, q) =
                   IF q \in Registered(before, Args(recv.data)[1]) THEN 1 ELSE 0

\* a publish on b by subscriber1, which is subscribed to a only, has reached
\* subscriber2, the one peer of b, and nobody else
C1_Witness ==
    /\ recv.ident = "subscriber1"
    /\ recv.data = PublishCommand(<<"b">>, <<"a">>)
    /\ ChannelsOf(before, "subscriber1") = {<<"a">>}
    /\ ChannelsOf(before, "subscriber2") = {<<"b">>}
    /\ sent = SetToBag({Send("subscriber2", <<"a">>)})

\* C5: a newly constructed Broker starts with an empty registry, and a
\* command processed by one Broker instance does not change the registry an
\* other instance observes.
C5_RegistryOwnedByInstance ==
    /\ \A b \in Brokers :
           (brokerState[b] = "up" /\ recv = NoRecv) => BrokerChannels(b) = EmptyDict
    /\ \A o \in Brokers :
           (recv # NoRecv /\ o # recv.broker /\ brokerState[o] # "none")
               => BrokerChannels(o) = before

\* C6: processing a SUBSCRIBE from a peer that is already in the set of
\* every channel it lists leaves the registry unchanged.
C6_IdempotentSubscribe ==
    (/\ IsCommand(recv.data, STR_SUBSCRIBE)
     /\ \A c \in Listed(recv.data) : recv.ident \in Registered(before, c))
        => channels = before

\* subscriber1, already in the two-peer set of a, has subscribed to a again
C6_Witness ==
    /\ recv.ident = "subscriber1"
    /\ recv.data = SubscribeCommand(<<"a">>)
    /\ <<"a">> \in DOMAIN before
    /\ before[<<"a">>] = {"subscriber1", "subscriber2"}
    /\ channels = before

\* C7: an UNSUBSCRIBE that lists only channels without an entry or channels
\* whose set does not hold the sender changes nothing and raises nothing.
C7_UnsubscribeAbsentIsNoOp ==
    (/\ IsCommand(recv.data, STR_UNSUBSCRIBE)
     /\ \A c \in Listed(recv.data) : recv.ident \notin Registered(before, c))
        => (channels = before /\ raised = "none")

\* C8: after an UNSUBSCRIBE from a peer, the peer is in the set of none of
\* the channels the command lists.
C8_UnsubscribeRemovesAllListed ==
    IsCommand(recv.data, STR_UNSUBSCRIBE)
        => \A c \in Listed(recv.data) : recv.ident \notin Registered(channels, c)

\* C9: a malformed payload raises nothing, leaves the registry unchanged and
\* causes no send.
C9_MalformedDropped ==
    (recv # NoRecv /\ Malformed(recv.data))
        => (raised = "none" /\ channels = before /\ sent = EmptyBag)

\* C17: a SUBSCRIBE or UNSUBSCRIBE from a peer changes the membership of no
\* other peer and the entry of no channel it does not list; a PUBLISH leaves
\* the registry, its keys included, as it was.
C17_HandlerFrame ==
    /\ (IsCommand(recv.data, STR_SUBSCRIBE) \/ IsCommand(recv.data, STR_UNSUBSCRIBE))
           => \A c \in (DOMAIN channels) \cup (DOMAIN before) :
                  /\ Registered(channels, c) \ {recv.ident}
                         = Registered(before, c) \ {recv.ident}
                  /\ c \notin Listed(recv.data) =>
                         /\ Registered(channels, c) = Registered(before, c)
                         /\ c \in DOMAIN channels <=> c \in DOMAIN before
    /\ IsVerb(recv.data, STR_PUBLISH) => channels = before

\* subscriber1 has left a, which subscriber2 still holds, and its entry
\* under b is untouched
C17_Witness ==
    /\ recv.ident = "subscriber1"
    /\ recv.data = UnsubscribeCommand(<<"a">>)
    /\ DOMAIN before = {<<"a">>, <<"b">>}
    /\ before[<<"a">>] = {"subscriber1", "subscriber2"}
    /\ before[<<"b">>] = {"subscriber1"}
    /\ channels[<<"a">>] = {"subscriber2"}
    /\ channels[<<"b">>] = {"subscriber1"}

\* C19: no step removes a channel entry from the registry: the set of its
\* keys only grows, an entry whose peers all left staying with an empty set.
C19_EntriesNeverPruned ==
    [][(DOMAIN channels) \subseteq (DOMAIN channels')]_vars

\* the one peer of a has unsubscribed, and a keeps its entry, now empty
C19_Witness ==
    /\ recv.data = UnsubscribeCommand(<<"a">>)
    /\ <<"a">> \in DOMAIN before
    /\ before[<<"a">>] = {recv.ident}
    /\ <<"a">> \in DOMAIN channels
    /\ channels[<<"a">>] = {}

\* ------------------------------------------------------------------------
\* Properties of the Subscriber with the Broker (specification SpecSys)
\* ------------------------------------------------------------------------

\* C2: once the broker has processed the commands of a subscriber that
\* subscribed to c and then unsubscribed from it (none of its commands is
\* queued, none was dropped, c is not in its desired set), the subscriber is
\* not in the set of c and a publish on c sends nothing to it.
C2_NoDeliveryAfterUnsubscribe ==
    \A s \in Subscribers : \A c \in ApiChannels :
        (c \notin subscriptions[s] /\ outq[s] = <<>> /\ ~dropped[s])
            => /\ s \notin Registered(channels, c)
               /\ (WellFormedPublish(recv.data) /\ Args(recv.data)[1] = c)
                      => SendsTo(sent, s) = 0

\* subscriber1 subscribed to a and then unsubscribed; the broker has
\* processed both, and a publish on a has then reached nobody
C2_Witness ==
    /\ <<"a">> \in DOMAIN channels
    /\ <<"a">> \notin subscriptions["subscriber1"]
    /\ outq["subscriber1"] = <<>>
    /\ ~dropped["subscriber1"]
    /\ subRaised["subscriber1"] = "none"
    /\ recv.ident = PublisherIdent
    /\ recv.data = PublishCommand(<<"a">>, <<"a">>)
    /\ sent = EmptyBag

\* C3: once the transport has reported that a peer disconnected, no
\* registry set contains the peer.
C3_DisconnectCleanup ==
    \A s \in Subscribers : ~connected[s] => ChannelsOf(channels, s) = {}

\* C4: once a connected Subscriber's resync and its earlier commands have
\* been processed, the registry holds it under exactly its desired set.
C4_ResyncExact ==
    \A s \in Subscribers :
        (connected[s] /\ outq[s] = <<>>) => ChannelsOf(channels, s) = subscriptions[s]

\* C13: subscribe(channel) always adds the channel to the desired set, and
\* hands a SUBSCRIBE command to the transport only if the link is up; when it
\* is down the call sends nothing.
C13_SubscribeSendsOnlyIfConnected ==
    [][\A s \in Subscribers :
          Calls(s, "subscribe") =>
              /\ call'[s].channel \in subscriptions'[s]
              /\ Handed(s) = IF connected[s]
                             THEN <<SubscribeCommand(call'[s].channel)>>
                             ELSE <<>>]_vars

\* C14: on a connect event with a desired set that is not empty, the
\* Subscriber sends exactly one SUBSCRIBE command, and that command lists
\* every channel of the desired set.
C14_ResyncIsOneCommand ==
    [][\A s \in Subscribers :
          (Calls(s, "on_connect") /\ subscriptions[s] # {}) =>
              /\ Len(Handed(s)) = 1
              /\ IsVerb(Handed(s)[1], STR_SUBSCRIBE)
              /\ Listed(Handed(s)[1]) = subscriptions[s]]_vars

\* C15: the resync runs on the step that takes the link from down to up and
\* on no other: that step replays every channel of the desired set exactly
\* once and nothing else, and a call made while the link stays up hands over
\* no command that lists a channel other than the one passed to the call.
C15_ResyncOncePerConnect ==
    [][\A s \in Subscribers :
          /\ (~connected[s] /\ connected'[s]) =>
                 /\ Calls(s, "on_connect")
                 /\ \A c \in subscriptions[s] : Listing(Handed(s), c) = 1
                 /\ \A i \in 1..Len(Handed(s)) :
                        /\ IsVerb(Handed(s)[i], STR_SUBSCRIBE)
                        /\ Listed(Handed(s)[i]) \subseteq subscriptions[s]
          /\ (connected[s] /\ connected'[s] /\ Len(outq'[s]) > Len(outq[s])) =>
                 /\ call'[s].op \in {"subscribe", "unsubscribe"}
                 /\ Len(Handed(s)) = 1
                 /\ Listed(Handed(s)[1]) = {call'[s].channel}]_vars

\* subscriber1, whose desired set is {a, b}, has connected and its resync
\* has queued two commands, one for each channel
C15_Witness ==
    /\ call["subscriber1"].op = "on_connect"
    /\ connected["subscriber1"]
    /\ subscriptions["subscriber1"] = {<<"a">>, <<"b">>}
    /\ Len(outq["subscriber1"]) = 2
    /\ Listing(outq["subscriber1"], <<"a">>) = 1
    /\ Listing(outq["subscriber1"], <<"b">>) = 1

\* C18: unsubscribe(c) hands the UNSUBSCRIBE command for c to the transport
\* first; then, when c is not in the desired set, it raises and leaves the
\* set as it was, and when c is in the set, it removes c and nothing else.
C18_UnsubscribeSendsThenRemoves ==
    [][\A s \in Subscribers :
          Calls(s, "unsubscribe") =>
              /\ Handed(s) = <<UnsubscribeCommand(call'[s].channel)>>
              /\ IF call'[s].channel \in subscriptions[s]
                 THEN /\ subscriptions'[s] = subscriptions[s] \ {call'[s].channel}
                      /\ subRaised'[s] = "none"
                 ELSE /\ subscriptions'[s] = subscriptions[s]
                      /\ subRaised'[s] = "KeyError"]_vars

\* subscriber1, whose desired set is {b}, has called unsubscribe(a): the
\* call raised, the set is still {b}, and the command is queued
C18_Witness ==
    /\ call["subscriber1"] = [op |-> "unsubscribe", channel |-> <<"a">>]
    /\ subRaised["subscriber1"] = "KeyError"
    /\ subscriptions["subscriber1"] = {<<"b">>}
    /\ outq["subscriber1"] # <<>>
    /\ outq["subscriber1"][Len(outq["subscriber1"])] = UnsubscribeCommand(<<"a">>)

\* C20: on_connect leaves the desired set as it found it and raises nothing,
\* whatever the set; for the empty set it sends nothing.
C20_ResyncKeepsDesiredSet ==
    [][\A s \in Subscribers :
          Calls(s, "on_connect") =>
              /\ subscriptions'[s] = subscriptions[s]
              /\ subRaised'[s] = "none"
              /\ subscriptions[s] = {} => Handed(s) = <<>>]_vars

\* the resync of subscriber1 has walked the desired set {a, b}, adding each
\* channel again, and raised nothing
C20_Witness ==
    /\ call["subscriber1"].op = "on_connect"
    /\ subRaised["subscriber1"] = "none"
    /\ subscriptions["subscriber1"] = {<<"a">>, <<"b">>}
    /\ outq["subscriber1"] \in {<<SubscribeCommand(<<"a">>), SubscribeCommand(<<"b">>)>>,
                                <<SubscribeCommand(<<"b">>), SubscribeCommand(<<"a">>)>>}

\* ------------------------------------------------------------------------
\* Properties of the relay (specification SpecRelay)
\* ------------------------------------------------------------------------

\* C16: for every message passed to publish, the payload the Broker relays
\* is the message with each run of spaces collapsed to a single space.
C16_RelayCollapsesSpaces ==
    \A c \in ApiChannels : \A m \in RelayMessages :
        recv.data = PublishCommand(c, m)
            => \A x \in BagToSet(sent) : x.data = Collapse(m)

\* C16, amended: for every message passed to publish on a channel without a
\* space, the payload the Broker relays is the message itself, character for
\* character, its runs of spaces included; it is never the command line.
C16_RelayKeepsMessage ==
    \A c \in ApiChannels : \A m \in RelayMessages :
        recv.data = PublishCommand(c, m)
            => \A x \in BagToSet(sent) : x.data = m /\ x.data # recv.data

\* a message with a run of two spaces has been relayed to the one peer of
\* its channel with both spaces
C16_Witness ==
    /\ recv.data = PublishCommand(<<"a">>, <<"a", SP, SP, "a">>)
    /\ sent = SetToBag({Send("subscriber1", <<"a", SP, SP, "a">>)})

\* ------------------------------------------------------------------------
\* Properties of delivery (specifications SpecDeliver and SpecRedeliver)
\* ------------------------------------------------------------------------

\* C11: once the peers have reconnected and nothing is on its way, with no
\* time to live run out, a Subscriber has received every message that was
\* published during an outage of the broker on a channel of its desired set.
C11_RecoversDesired ==
    \A s \in Subscribers : AtRest(s) => NumOutage(received[s]) >= owed[s]

\* C11, amended: once the peers have reconnected and nothing is on its way,
\* with no time to live run out, a Subscriber that does not unsubscribe has
\* received every message that was published during an outage of the broker
\* on a channel whose registry set held the Subscriber at the publish.
C11_RecoversRegistered ==
    \A s \in Subscribers : AtRest(s) => NumOutage(received[s]) >= due[s]

\* the first Broker has stopped and the second runs; a message published
\* during the outage on a channel that held subscriber1 has reached it
C11_Witness ==
    /\ brokerState[1] = "stopped"
    /\ brokerState[2] = "up"
    /\ AtRest("subscriber1")
    /\ due["subscriber1"] = 1
    /\ NumOutage(received["subscriber1"]) = 1

\* C12: when the Broker handles a PUBLISH on a channel whose set holds a
\* Subscriber that is disconnected, its messaging keeps the message for the
\* Subscriber; and a message kept since the Subscriber was disconnected is
\* followed by a further message handed to the Subscriber's on_recv, unless
\* a time to live runs out first.
C12_DeliveredAfterReconnect ==
    /\ [][\A s \in Subscribers : \A c \in ApiChannels : \A m \in ApiMessages :
             (/\ pubConnected /\ pubq # <<>> /\ pubq' = Tail(pubq)
              /\ Head(pubq).data = PublishCommand(c, m)
              /\ s \in Registered(channels, c)
              /\ ~connected[s])
                 => /\ Len(outbox'[s]) = Len(outbox[s]) + 1
                    /\ outbox'[s][Len(outbox'[s])].data = m
                    /\ outbox'[s][Len(outbox'[s])].held]_vars
    /\ \A s \in Subscribers : \A n \in 0..MaxPublish :
           ((\E i \in 1..Len(outbox[s]) : outbox[s][i].held) /\ Len(received[s]) = n)
               ~> (Len(received[s]) > n \/ lost)

\* subscriber1 has reconnected and received a message the Broker had kept
\* for it since it was disconnected
C12_Witness ==
    /\ connected["subscriber1"]
    /\ \E i \in 1..Len(received["subscriber1"]) : received["subscriber1"][i].held

\* ------------------------------------------------------------------------
\* Properties of the fan-out loop (specification SpecConc)
\* ------------------------------------------------------------------------

\* C10: a peer added to or removed from the registry while a fan-out loop
\* runs makes the loop neither raise nor send twice to a peer.
C10_FanOutSnapshot ==
    /\ raised # "RuntimeError"
    /\ \A q \in AllPeers : SendsTo(sent, q) <= 1

====
